---- MODULE Spec2Model ----
(***************************************************************************)
(* Model of the local file registry of artie                              *)
(* (src/artie/registry/fileRegistry.go).                                   *)
(*                                                                         *)
(* A FileRegistry object holds the in-memory index (Repositories); the     *)
(* file repository.json holds the persisted document (saved); the registry *)
(* directory holds one zip/json pair per backing-file base name (files).   *)
(* log.Fatal and core.RaiseErr end the process: the object is gone and     *)
(* only a new NewFileRegistry() (which loads the document) can follow.     *)
(***************************************************************************)
EXTENDS Integers, Sequences, FiniteSets, TLC

VARIABLES Repositories, saved, files, built, status, last, ops, createdText, now, ageLabel, procs

vars == <<Repositories, saved, files, built, status, last, ops, createdText, now, ageLabel, procs>>

(***************************************************************************)
(* Bounds                                                                  *)
(***************************************************************************)
\* number of distinct builds (seal + zip pairs) that can be added
MaxBuilds == 3
\* longest tag list an artefact may grow to
MaxTagLen == 3
\* most references in one Remove call
MaxBatch == 2
\* most Add, Tag and Remove calls in one run
MaxOps == 5

(***************************************************************************)
(* Input universe                                                          *)
(***************************************************************************)
\* content identifiers of the builds, in hexadecimal characters
Digest(chars) ==
    <<"0", "0", "0", "0", "0", "0", "0">> \o chars
        \o <<"0", "0", "0", "0", "0", "0", "0", "0", "0", "0">>

AllIds ==
    << Digest(<<"a", "b">>), Digest(<<"b", "c">>), Digest(<<"c", "a">>),
       Digest(<<"d", "e">>), Digest(<<"e", "f">>) >>

\* a build is a zip file with its seal; Add moves both into the registry, so a
\* build is added at most once, under its own base name and its own Id
Builds == 1 .. MaxBuilds

\* the bare name fragments of the references used; "a" is also a fragment of
\* some Ids, as a short name is of a hexadecimal checksum
NameFragments == { <<"x">>, <<"a">> }

TagNames == {"v1", "v2"}

\* core.ArtieName: the parsed reference
ArtieName == [Domain : {"d"}, Group : {"g"}, Name : NameFragments, Tag : TagNames]

FullyQualifiedName(name) == <<name.Domain, name.Group, name.Name>>

IsInTheSameRepositoryAs(target, source) ==
    FullyQualifiedName(target) = FullyQualifiedName(source)

\* the seal of a build: core.ArtefactId(s) and the manifest labels
ArtefactId(b) == AllIds[b]

ManifestType(b) == "app"

ManifestSize(b) == <<"size", b>>

ManifestTime(b) == <<"time", b>>

\* the base name (without extension) of the zip file of a build
BaseNameNoExt(b) == <<"file", b>>

(***************************************************************************)
(* Helpers                                                                 *)
(***************************************************************************)
\* strings.Contains
Contains(s, substr) ==
    \E i \in 0 .. (Len(s) - Len(substr)) : SubSeq(s, i + 1, i + Len(substr)) = substr

MinOf(S) == CHOOSE m \in S : \A n \in S : m <= n

\* a[i] = a[len(a)-1]; a = a[:len(a)-1]
SwapRemove(a, i) ==
    [k \in 1 .. (Len(a) - 1) |-> IF k = i THEN a[Len(a)] ELSE a[k]]

\* a mutation of HasTag: no artefact is seen to hold a tag
HasTagNever(a, tag) == FALSE

\* artefact.HasTag
HasTag(a, tag) == \E k \in 1 .. Len(a.Tags) : a.Tags[k] = tag

\* core.RemoveElement: removes the first occurrence of value
RemoveElement(a, value) ==
    LET hits == {k \in 1 .. Len(a) : a[k] = value}
    IN  IF hits = {} THEN a ELSE SwapRemove(a, MinOf(hits))

\* the artefact record created from a build
NewArtefact(id, type, fileRef, tags, size, created) ==
    [Id |-> id, Type |-> type, FileRef |-> fileRef, Tags |-> tags,
     Size |-> size, Created |-> created]

NewRepository(fqn, artefacts) == [Repository |-> fqn, Artefacts |-> artefacts]

(***************************************************************************)
(* Lookups                                                                 *)
(***************************************************************************)
\* results of GetArtefact: a pointer is the pair (repository index, artefact index)
NilArtie == [kind |-> "nil", r |-> 0, a |-> 0]

FatalArtie == [kind |-> "fatal", r |-> 0, a |-> 0]

FoundArtie(p) == [kind |-> "found", r |-> p[1], a |-> p[2]]

\* the pointers to the artefacts of repository i whose Id contains the fragment, in order
IdMatches(repos, i, fragment) ==
    LET arts == repos[i].Artefacts
        F[k \in 0 .. Len(arts)] ==
            IF k = 0 THEN <<>>
            ELSE IF Contains(arts[k].Id, fragment) THEN Append(F[k - 1], <<i, k>>)
                 ELSE F[k - 1]
    IN  F[Len(arts)]

\* the value returned after the loop over the repositories
AfterLoop(artefactsFound) ==
    IF Len(artefactsFound) = 0 THEN NilArtie ELSE FoundArtie(artefactsFound[1])

\* a mutation of TooManyFound: the Id hint is never reported as too short
TooManyFoundNever(artefactsFound) == FALSE

\* the test that raises "artefact Id hint provided is not sufficiently long"
TooManyFound(artefactsFound) == Len(artefactsFound) > 1

RECURSIVE GetArtefactFrom(_, _, _, _)
GetArtefactFrom(repos, name, i, artefactsFound) ==
    IF i > Len(repos) THEN AfterLoop(artefactsFound)
    ELSE IF repos[i].Repository = FullyQualifiedName(name)
         THEN LET tagged == {k \in 1 .. Len(repos[i].Artefacts) :
                                HasTag(repos[i].Artefacts[k], name.Tag)}
              IN  IF tagged # {} THEN FoundArtie(<<i, MinOf(tagged)>>)
                  ELSE AfterLoop(artefactsFound)
         ELSE LET found2 == artefactsFound \o IdMatches(repos, i, name.Name)
              IN  IF TooManyFound(found2) THEN FatalArtie
                  ELSE GetArtefactFrom(repos, name, i + 1, found2)

GetArtefact(repos, name) == GetArtefactFrom(repos, name, 1, <<>>)

\* a mutation of findRepository: no repository is ever found
findRepositoryNil(repos, name) == 0

\* index of the repository found, 0 for nil
findRepository(repos, name) ==
    LET byName == {i \in 1 .. Len(repos) : repos[i].Repository = FullyQualifiedName(name)}
        byId   == {i \in 1 .. Len(repos) :
                     \E k \in 1 .. Len(repos[i].Artefacts) :
                        Contains(repos[i].Artefacts[k].Id, name.Name)}
    IN  IF byName # {} THEN MinOf(byName)
        ELSE IF byId # {} THEN MinOf(byId)
        ELSE 0

removeArtefactById(a, id) ==
    LET hits == {k \in 1 .. Len(a) : Contains(a[k].Id, id)}
    IN  IF hits = {} THEN a ELSE SwapRemove(a, MinOf(hits))

removeRepoByName(a, name) ==
    LET hits == {k \in 1 .. Len(a) : a[k].Repository = FullyQualifiedName(name)}
    IN  IF hits = {} THEN a ELSE SwapRemove(a, MinOf(hits))

\* the artefact a pointer refers to
Deref(repos, p) == repos[p.r].Artefacts[p.a]

\* the index with the tag list of the artefact at p replaced
WithTags(repos, p, tags) ==
    [repos EXCEPT ![p.r].Artefacts[p.a].Tags = tags]

(***************************************************************************)
(* Operations.  A world is the state an operation works on: R the index in *)
(* memory, S the persisted document, F the base names with a zip/json pair *)
(* in the registry directory, st "running" or "exited" (after log.Fatal or *)
(* core.RaiseErr), out the outcomes reported by the operation.             *)
(***************************************************************************)
World == [R |-> Repositories, S |-> saved, F |-> files, st |-> status, out |-> <<>>]

Msg(w, label) == [w EXCEPT !.out = Append(@, label)]

\* log.Fatal: the process exits
Fatal(w, label) == [Msg(w, label) EXCEPT !.st = "exited"]

\* core.RaiseErr: the error is reported and the command is aborted
RaiseErr(w, label) == Fatal(w, label)

\* FileRegistry.save
save(w) == [w EXCEPT !.S = w.R]

\* FileRegistry.unTag
unTag(w, name, tag) ==
    LET artie == GetArtefact(w.R, name)
    IN  IF artie.kind = "fatal" THEN RaiseErr(w, "ambiguous")
        ELSE IF artie.kind = "found"
             THEN [w EXCEPT !.R = WithTags(w.R, artie,
                                           RemoveElement(Deref(w.R, artie).Tags, tag))]
             ELSE w

\* FileRegistry.removeFiles of the artefact record artie
removeFiles(w, artie) ==
    IF artie.FileRef \in w.F
    THEN [w EXCEPT !.F = w.F \ {artie.FileRef}]
    ELSE Fatal(w, "io")

\* a mutation of ValidExt: every extension is accepted
ValidExtAny(ext) == TRUE

\* the extension test of Add: only zip files are accepted
ValidExt(ext) == ext = ".zip"

\* FileRegistry.Add of build b, whose zip file has extension ext
AddOp(w, ext, b, name) ==
    IF ~ValidExt(ext) THEN Fatal(w, "validation")
    ELSE LET moved    == [w EXCEPT !.F = w.F \cup {BaseNameNoExt(b)}]
             untagged == unTag(moved, name, name.Tag)
         IN  IF untagged.st = "exited" THEN untagged
             ELSE LET found == findRepository(untagged.R, name)
                      repos == IF found = 0
                               THEN Append(untagged.R,
                                           NewRepository(FullyQualifiedName(name), <<>>))
                               ELSE untagged.R
                      repo  == IF found = 0 THEN Len(repos) ELSE found
                      artie == NewArtefact(ArtefactId(b), ManifestType(b), BaseNameNoExt(b),
                                           <<name.Tag>>, ManifestSize(b), ManifestTime(b))
                  IN  save(Msg([untagged EXCEPT !.R =
                                  [repos EXCEPT ![repo].Artefacts = Append(@, artie)]],
                               "added"))

\* the loop of Tag over the tags of the target artefact: the target tag is appended
\* once for every tag of the ranged-over list that differs from it
TagExisting(tags, tag) ==
    LET F[k \in 0 .. Len(tags)] ==
            IF k = 0 THEN tags
            ELSE IF tags[k] = tag THEN F[k - 1] ELSE Append(F[k - 1], tag)
    IN  F[Len(tags)]

\* a copy of the source artefact carrying only the target tag
CopyOf(sourceArtie, tag) ==
    NewArtefact(sourceArtie.Id, sourceArtie.Type, sourceArtie.FileRef, <<tag>>,
                sourceArtie.Size, sourceArtie.Created)

\* the cross-repository part of FileRegistry.Tag
TagOther(w, source, sourceArtie, targetName) ==
    LET targetRepository == findRepository(w.R, targetName)
    IN  IF targetRepository = 0
        THEN save(Msg([w EXCEPT !.R = Append(w.R,
                          NewRepository(FullyQualifiedName(targetName),
                                        <<CopyOf(sourceArtie, targetName.Tag)>>))],
                      "tagged-new-repository"))
        ELSE LET targetArtie == GetArtefact(w.R, targetName)
             IN  IF targetArtie.kind = "fatal" THEN RaiseErr(w, "ambiguous")
                 ELSE IF targetArtie.kind = "found"
                      THEN Msg([w EXCEPT !.R = WithTags(w.R, targetArtie,
                                   TagExisting(Deref(w.R, targetArtie).Tags, targetName.Tag))],
                               "target-exists")
                      ELSE LET arts   == w.R[targetRepository].Artefacts
                               sameId == {k \in 1 .. Len(arts) : arts[k].Id = sourceArtie.Id}
                           IN  IF sameId # {}
                               THEN save(Msg([w EXCEPT !.R[targetRepository]
                                                 .Artefacts[MinOf(sameId)].Tags =
                                                     Append(@, targetName.Tag)],
                                             "tagged-same-id"))
                               ELSE save(Msg([w EXCEPT !.R[targetRepository].Artefacts =
                                                 Append(@, CopyOf(sourceArtie, targetName.Tag))],
                                             "tagged-new-record"))

\* FileRegistry.Tag
TagOp(w, sourceName, targetName) ==
    LET source == GetArtefact(w.R, sourceName)
    IN  IF source.kind = "fatal" THEN RaiseErr(w, "ambiguous")
        ELSE IF source.kind = "nil" THEN RaiseErr(w, "no-source")
        ELSE LET sourceArtie == Deref(w.R, source)
             IN  IF IsInTheSameRepositoryAs(targetName, sourceName)
                 THEN IF ~HasTag(sourceArtie, targetName.Tag)
                      THEN save(Msg([w EXCEPT !.R = WithTags(w.R, source,
                                        Append(sourceArtie.Tags, targetName.Tag))],
                                    "tagged"))
                      ELSE Msg(w, "already-tagged")
                 ELSE TagOther(w, source, sourceArtie, targetName)

\* is there an artefact with this Id in the index
HoldsId(repos, id) ==
    \E i \in 1 .. Len(repos) : \E k \in 1 .. Len(repos[i].Artefacts) :
        repos[i].Artefacts[k].Id = id

\* a mutation of NotFound: a reference that is not found ends the command
NotFoundFatal(w) == Fatal(w, "not-found")

\* Remove reports a reference that resolves to nothing and continues
NotFound(w) == Msg(w, "not-found")

\* the body of the loop of FileRegistry.Remove for one reference
RemoveOne(w, name) ==
    LET artie == GetArtefact(w.R, name)
    IN  IF artie.kind = "fatal" THEN RaiseErr(w, "ambiguous")
        ELSE IF artie.kind = "nil" THEN NotFound(w)
        ELSE LET before   == Deref(w.R, artie)
                 length   == Len(before.Tags)
                 untagged == unTag(w, name, name.Tag)
                 after    == Deref(untagged.R, artie)
             IN  IF Len(after.Tags) < length
                 THEN IF Len(after.Tags) = 0
                      THEN LET norepo == [untagged EXCEPT
                                            !.R = removeRepoByName(untagged.R, name)]
                           IN  IF ~HoldsId(norepo.R, after.Id)
                               THEN LET nofiles == removeFiles(norepo, after)
                                    IN  IF nofiles.st = "exited" THEN nofiles
                                        ELSE save(Msg(nofiles, "removed-files"))
                               ELSE save(Msg(norepo, "removed-repository"))
                      ELSE save(Msg(untagged, "removed-tag"))
                 ELSE LET repo    == findRepository(untagged.R, name)
                          byId    == [untagged EXCEPT !.R[repo].Artefacts =
                                         removeArtefactById(@, name.Name)]
                          nofiles == removeFiles(byId, after)
                      IN  IF nofiles.st = "exited" THEN nofiles
                          ELSE save(Msg(nofiles, "removed-by-id"))

\* FileRegistry.Remove: the references are processed in order, until the process exits
RECURSIVE RemoveOp(_, _)
RemoveOp(w, names) ==
    IF names = <<>> \/ w.st = "exited" THEN w
    ELSE RemoveOp(RemoveOne(w, Head(names)), Tail(names))

(***************************************************************************)
(* Push                                                                    *)
(***************************************************************************)
\* the call remote.UploadArtefact(client, name, r.Path(), fileRef, credentials)
UploadArtefact(fileRef) == "UploadArtefact " \o ToString(fileRef)

\* a mutation of PushNotFound: the missing artefact is reported and Push returns
PushNotFoundReturns(w) == Msg(w, "no-artefact")

\* Push of a reference that resolves to nothing ends the process
PushNotFound(w) == Fatal(w, "no-artefact")

\* FileRegistry.Push; err tells whether the transport fails
PushOp(w, name, err) ==
    LET artie == GetArtefact(w.R, name)
    IN  IF artie.kind = "fatal" THEN RaiseErr(w, "ambiguous")
        ELSE IF artie.kind = "nil" THEN PushNotFound(w)
        ELSE LET called == Msg(w, UploadArtefact(Deref(w.R, artie).FileRef))
             IN  IF err THEN Fatal(called, "transport") ELSE Msg(called, "pushed")

(***************************************************************************)
(* Listing                                                                 *)
(***************************************************************************)
\* time.Parse(time.RFC850, rfc850time): the instant the text denotes, in seconds
ParseRFC850(rfc850time) == rfc850time[2]

\* math.Trunc and int64(): the whole part of n / d, rounded towards zero
Trunc(n, d) == IF n >= 0 THEN n \div d ELSE -((-n) \div d)

\* a mutation of plural: the label is always made plural
pluralAlways(value, label) == label \o "s"

\* turn label into plural if value is greater than one
plural(value, label) == IF value > 1 THEN label \o "s" ELSE label

\* fmt.Sprintf("%d %s ago", value, plural(value, unit))
Ago(value, unit) == ToString(value) \o " " \o plural(value, unit) \o " ago"

\* the elapsed time from the creation time to instant, in words
toElapsedLabel(rfc850time, instant) ==
    LET elapsed == instant - ParseRFC850(rfc850time)
        seconds == elapsed
        minutes == Trunc(elapsed, 60)
        hours   == Trunc(elapsed, 60 * 60)
        days    == Trunc(elapsed, 60 * 60 * 24)
        weeks   == Trunc(elapsed, 60 * 60 * 24 * 7)
        months  == Trunc(elapsed, 60 * 60 * 24 * 7 * 4)
        years   == Trunc(elapsed, 60 * 60 * 24 * 7 * 4 * 12)
    IN  IF years > 0 THEN Ago(years, "year")
        ELSE IF months > 0 THEN Ago(months, "month")
        ELSE IF weeks > 0 THEN Ago(weeks, "week")
        ELSE IF days > 0 THEN Ago(days, "day")
        ELSE IF hours > 0 THEN Ago(hours, "hour")
        ELSE IF minutes > 0 THEN Ago(minutes, "minute")
        ELSE Ago(seconds, "second")

\* a.Id[7:19]
ShortId(id) == SubSeq(id, 8, 19)

\* one row of the table of List
Row(repo, tag, a, instant) ==
    <<repo.Repository, tag, ShortId(a.Id), a.Type, toElapsedLabel(a.Created, instant), a.Size>>

\* a mutation of ArtefactRows: an artefact without tags gets no row
ArtefactRowsTagged(repo, a, instant) ==
    [t \in 1 .. Len(a.Tags) |-> Row(repo, a.Tags[t], a, instant)]

\* the rows List prints for one artefact: one "<none>" row if it has no tags,
\* then one row for every tag
ArtefactRows(repo, a, instant) ==
    (IF Len(a.Tags) = 0 THEN << Row(repo, "<none>", a, instant) >> ELSE <<>>)
        \o [t \in 1 .. Len(a.Tags) |-> Row(repo, a.Tags[t], a, instant)]

\* the rows List prints for one repository
RepositoryRows(repo, instant) ==
    LET F[k \in 0 .. Len(repo.Artefacts)] ==
            IF k = 0 THEN <<>>
            ELSE F[k - 1] \o ArtefactRows(repo, repo.Artefacts[k], instant)
    IN  F[Len(repo.Artefacts)]

\* FileRegistry.List: the header, then the rows of every repository
ListRows(repos, instant) ==
    LET F[i \in 0 .. Len(repos)] ==
            IF i = 0
            THEN << <<"REPOSITORY", "TAG", "ARTEFACT ID", "ARTEFACT TYPE", "CREATED", "SIZE">> >>
            ELSE F[i - 1] \o RepositoryRows(repos[i], instant)
    IN  F[Len(repos)]

\* FileRegistry.ListQ: the short Id of every artefact record
ListQRows(repos) ==
    LET Q(repo) == [k \in 1 .. Len(repo.Artefacts) |-> <<ShortId(repo.Artefacts[k].Id)>>]
        F[i \in 0 .. Len(repos)] ==
            IF i = 0 THEN <<>> ELSE F[i - 1] \o Q(repos[i])
    IN  F[Len(repos)]

(***************************************************************************)
(* The state machine                                                       *)
(***************************************************************************)
\* what the last operation was and the outcomes it reported
Last(op, w) == [op |-> op, out |-> w.out]

\* no tag list longer than the bound
WithinBounds(w) ==
    \A i \in 1 .. Len(w.R) : \A k \in 1 .. Len(w.R[i].Artefacts) :
        Len(w.R[i].Artefacts[k].Tags) <= MaxTagLen

Become(w) ==
    /\ ops' = ops + 1
    /\ Repositories' = w.R
    /\ saved' = w.S
    /\ files' = w.F
    /\ status' = w.st
    /\ UNCHANGED <<createdText, now, ageLabel, procs>>

\* the registry directory is empty: load() finds no document and saves the empty index
Init ==
    /\ Repositories = <<>>
    /\ saved = <<>>
    /\ files = {}
    /\ built = {}
    /\ status = "running"
    /\ last = [op |-> "NewFileRegistry", out |-> <<>>]
    /\ ops = 0
    /\ createdText = <<"time", 0>>
    /\ now = 0
    /\ ageLabel = ""
    /\ procs = <<>>

\* NewFileRegistry and load: a new process (or a new object) reads the persisted document
NewFileRegistry ==
    /\ Repositories' = saved
    /\ status' = "running"
    /\ UNCHANGED <<saved, files, built, createdText, now, ageLabel, procs>>
    /\ last' = [op |-> "NewFileRegistry", out |-> <<>>]
    /\ ops' = ops

Add ==
    /\ status = "running"
    /\ ops < MaxOps
    /\ \E b \in Builds \ built, ext \in {".zip", ".tar"}, name \in ArtieName :
          LET w == AddOp(World, ext, b, name)
          IN  /\ Become(w)
              /\ built' = IF ValidExt(ext) THEN built \cup {b} ELSE built
              /\ last' = Last("Add", w)

Tag ==
    /\ status = "running"
    /\ ops < MaxOps
    /\ \E sourceName \in ArtieName, targetName \in ArtieName :
          LET w == TagOp(World, sourceName, targetName)
          IN  /\ WithinBounds(w)
              /\ Become(w)
              /\ built' = built
              /\ last' = Last("Tag", w)

Batches == UNION {[1 .. n -> ArtieName] : n \in 1 .. MaxBatch}

Remove ==
    /\ status = "running"
    /\ ops < MaxOps
    /\ \E names \in Batches :
          LET w == RemoveOp(World, names)
          IN  /\ Become(w)
              /\ built' = built
              /\ last' = Last("Remove", w)

\* the instants at which a listing is made: when the last build was made, and
\* ten days later
Clock == {ParseRFC850(ManifestTime(MaxBuilds)) + e : e \in {0, 10 * 24 * 60 * 60}}

List ==
    /\ status = "running"
    /\ \E instant \in Clock :
          last' = [op |-> "List", out |-> ListRows(Repositories, instant)]
    /\ UNCHANGED <<Repositories, saved, files, built, status, ops, createdText, now, ageLabel, procs>>

ListQ ==
    /\ status = "running"
    /\ last' = [op |-> "ListQ", out |-> ListQRows(Repositories)]
    /\ UNCHANGED <<Repositories, saved, files, built, status, ops, createdText, now, ageLabel, procs>>

Next == NewFileRegistry \/ Add \/ Tag \/ Remove \/ List \/ ListQ

Spec == Init /\ [][Next]_vars

(***************************************************************************)
(* The registry with Push: runs of at most PushDepth Add, Tag and Remove     *)
(* calls, between which artefacts are pushed.                              *)
(***************************************************************************)
PushDepth == 3

InitPush ==
    /\ Repositories = <<>>
    /\ saved = <<>>
    /\ files = {}
    /\ built = {}
    /\ status = "running"
    /\ last = [op |-> "NewFileRegistry", out |-> <<>>]
    /\ ops = MaxOps - PushDepth
    /\ createdText = <<"time", 0>>
    /\ now = 0
    /\ ageLabel = ""
    /\ procs = <<>>

Push ==
    /\ status = "running"
    /\ \E name \in ArtieName, err \in BOOLEAN :
          LET w == PushOp(World, name, err)
          IN  /\ Repositories' = w.R
              /\ saved' = w.S
              /\ files' = w.F
              /\ status' = w.st
              /\ last' = Last("Push", w)
    /\ UNCHANGED <<built, ops, createdText, now, ageLabel, procs>>

NextPush == NewFileRegistry \/ Add \/ Tag \/ Remove \/ Push

SpecPush == InitPush /\ [][NextPush]_vars

(***************************************************************************)
(* The age label on its own: a creation time and an instant are drawn, and  *)
(* toElapsedLabel is applied to them.                                      *)
(***************************************************************************)
\* n days, in seconds
Days(n) == n * 24 * 60 * 60

\* the elapsed times tried, in seconds: around every change of unit
ElapsedTimes ==
    {-5, 0, 1, 2, 59, 60, 61, 119, 120, 3599, 3600, 7199, 7200}
        \cup {Days(n) : n \in {1, 2, 6, 7, 10, 13, 14, 27, 28, 56, 335, 336, 400, 671, 672, 800}}
        \cup {Days(n) - 1 : n \in {1, 7, 28, 336}}

InitAge ==
    /\ Repositories = <<>>
    /\ saved = <<>>
    /\ files = {}
    /\ built = {}
    /\ status = "running"
    /\ last = [op |-> "NewFileRegistry", out |-> <<>>]
    /\ ops = 0
    /\ createdText \in {ManifestTime(b) : b \in Builds}
    /\ now \in {ParseRFC850(createdText) + e : e \in ElapsedTimes}
    /\ ageLabel = ""
    /\ procs = <<>>

ElapsedLabel ==
    /\ ageLabel' = toElapsedLabel(createdText, now)
    /\ UNCHANGED <<Repositories, saved, files, built, status, last, ops, createdText, now, procs>>

NextAge == ElapsedLabel

SpecAge == InitAge /\ [][NextAge]_vars

(***************************************************************************)
(* Two invocations on one registry directory: each is a process of its own  *)
(* that loads the document, applies one operation to its index in memory    *)
(* and, where the operation saves, rewrites the whole document.  Nothing    *)
(* locks the document.                                                     *)
(***************************************************************************)
Invocations == {1, 2}

\* the build an invocation adds: build 1 may be in the registry already
BuildOf(p) == p + 1

EmptyWorld == [R |-> <<>>, S |-> <<>>, F |-> {}, st |-> "running", out |-> <<>>]

\* the registries the invocations start on: empty, or holding build 1
Seeds == {EmptyWorld} \cup {AddOp(EmptyWorld, ".zip", 1, n) : n \in ArtieName}

\* the operations an invocation may be asked for
Mutations(p) ==
    {[op |-> "Add", b |-> BuildOf(p), names |-> <<n>>] : n \in ArtieName}
        \cup {[op |-> "Tag", b |-> 0, names |-> <<source, target>>] :
                 source \in ArtieName, target \in ArtieName}
        \cup {[op |-> "Remove", b |-> 0, names |-> <<n>>] : n \in ArtieName}

Apply(m, w) ==
    IF m.op = "Add" THEN AddOp(w, ".zip", m.b, m.names[1])
    ELSE IF m.op = "Tag" THEN TagOp(w, m.names[1], m.names[2])
    ELSE RemoveOp(w, m.names)

\* a mutation of Working: the operation is applied to the document as it is now
WorkingCurrent(p) == saved

\* the index the operation of invocation p is applied to: its own, as loaded
Working(p) == procs[p].Repositories

WorldOf(p) == [R |-> Working(p), S |-> saved, F |-> files, st |-> "running", out |-> <<>>]

InitRace ==
    /\ \E seed \in Seeds :
          /\ saved = seed.S
          /\ files = seed.F
          /\ built = (IF seed.R = <<>> THEN {} ELSE {1})
          /\ Repositories = seed.R
    /\ status = "running"
    /\ last = [op |-> "NewFileRegistry", out |-> <<>>]
    /\ ops = 0
    /\ createdText = <<"time", 0>>
    /\ now = 0
    /\ ageLabel = ""
    /\ procs = [p \in Invocations |->
                  [pc |-> "start", Repositories |-> <<>>, loaded |-> <<>>,
                   did |-> [op |-> "none", b |-> 0, names |-> <<>>]]]

\* NewFileRegistry of invocation p: the document is read into its index
Load(p) ==
    /\ procs[p].pc = "start"
    /\ procs' = [procs EXCEPT ![p].pc = "loaded",
                              ![p].Repositories = saved,
                              ![p].loaded = saved]
    /\ UNCHANGED <<Repositories, saved, files, built, status, last, ops,
                   createdText, now, ageLabel>>

\* invocation p applies its operation, which writes the document where it saves
Run(p) ==
    /\ procs[p].pc = "loaded"
    /\ \E m \in Mutations(p) :
          LET w == Apply(m, WorldOf(p))
          IN  /\ procs' = [procs EXCEPT
                              ![p].pc = (IF w.st = "running" THEN "done" ELSE "exited"),
                              ![p].Repositories = w.R,
                              ![p].did = m]
              /\ saved' = w.S
              /\ files' = w.F
              /\ built' = (IF m.op = "Add" THEN built \cup {m.b} ELSE built)
    /\ UNCHANGED <<Repositories, status, last, ops, createdText, now, ageLabel>>

NextRace == \E p \in Invocations : Load(p) \/ Run(p)

SpecRace == InitRace /\ [][NextRace]_vars

(***************************************************************************)
(* Properties                                                              *)
(***************************************************************************)
\* the pointers to every artefact record of an index
Pointers(repos) ==
    {p \in (1 .. Len(repos)) \X (1 .. MaxBuilds + MaxOps) :
        p[2] <= Len(repos[p[1]].Artefacts)}

\* the repositories (indexes) of an index that hold a tagged record with this Id
TaggedIn(repos, id) ==
    {i \in 1 .. Len(repos) :
        \E k \in 1 .. Len(repos[i].Artefacts) :
            /\ repos[i].Artefacts[k].Id = id
            /\ repos[i].Artefacts[k].Tags # <<>>}

\* C1: in every reachable state no repository holds two different artefact
\* records whose tag lists both contain the same tag.
C1_TagNamesOneArtefact ==
    \A i \in 1 .. Len(Repositories) :
        \A k, l \in 1 .. Len(Repositories[i].Artefacts) :
            \A tag \in TagNames :
                (/\ HasTag(Repositories[i].Artefacts[k], tag)
                 /\ HasTag(Repositories[i].Artefacts[l], tag)) => k = l

\* C2: whenever a Remove deletes the files of an artefact, no repository left
\* in the index holds a record with the content identifier of that artefact.
C2_FilesDeletedOnlyWhenUnreferenced ==
    [][last'.op = "Remove" =>
          \A b \in Builds :
              (BaseNameNoExt(b) \in files /\ BaseNameNoExt(b) \notin files')
                  => ~HoldsId(Repositories', ArtefactId(b))]_vars

\* C3: from a state where one content identifier is tagged in two
\* repositories, a Remove that leaves a record with that identifier keeps the
\* backing files, and a Remove that leaves no record with that identifier
\* anywhere has deleted them.
C3_SharedFilesDeletedWithLastReference ==
    [][(last'.op = "Remove" /\ status' = "running") =>
          \A b \in Builds :
              (/\ Cardinality(TaggedIn(Repositories, ArtefactId(b))) >= 2
               /\ BaseNameNoExt(b) \in files)
                  => (HoldsId(Repositories', ArtefactId(b))
                         <=> BaseNameNoExt(b) \in files')]_vars

\* the indexes of the repositories with the fully-qualified name of a reference
NamedLike(repos, name) ==
    {i \in 1 .. Len(repos) : repos[i].Repository = FullyQualifiedName(name)}

\* the artefacts (indexes) of repository i that hold a tag
Holders(repos, i, tag) ==
    {k \in 1 .. Len(repos[i].Artefacts) : HasTag(repos[i].Artefacts[k], tag)}

\* the tags of a tag list, as a set
TagSet(tags) == {tags[k] : k \in 1 .. Len(tags)}

\* C4: after Add(file, R:t, m) completes, GetArtefact(R:t) returns the record
\* Add created: its identifier is that of m and its tag list is exactly [t].
C4_AddThenGetArtefact ==
    status = "running" =>
        \A b \in Builds \ built, name \in ArtieName :
            LET w == AddOp(World, ".zip", b, name)
                g == GetArtefact(w.R, name)
            IN  w.st = "running" =>
                    /\ g.kind = "found"
                    /\ Deref(w.R, g).Id = ArtefactId(b)
                    /\ Deref(w.R, g).FileRef = BaseNameNoExt(b)
                    /\ Deref(w.R, g).Tags = <<name.Tag>>

\* C5: when Add targets R:t and an artefact of R holds t, after Add that
\* artefact is still a record of R with its other tags and without t, its files
\* are kept, and the new artefact is the only one of R holding t.
C5_AddStealsTag ==
    status = "running" =>
        \A b \in Builds \ built, name \in ArtieName :
            \A i \in NamedLike(Repositories, name) :
                \A k \in Holders(Repositories, i, name.Tag) :
                    LET w   == AddOp(World, ".zip", b, name)
                        old == Repositories[i].Artefacts[k]
                    IN  w.st = "running" =>
                            /\ Len(w.R) >= i
                            /\ w.R[i].Repository = FullyQualifiedName(name)
                            /\ Len(w.R[i].Artefacts) >= k
                            /\ w.R[i].Artefacts[k].Id = old.Id
                            /\ w.R[i].Artefacts[k].FileRef = old.FileRef
                            /\ TagSet(w.R[i].Artefacts[k].Tags)
                                   = TagSet(old.Tags) \ {name.Tag}
                            /\ old.FileRef \in files => old.FileRef \in w.F
                            /\ \A l \in Holders(w.R, i, name.Tag) :
                                   w.R[i].Artefacts[l].Id = ArtefactId(b)

\* C6: from a store where A/B:s exists and no repository C/D exists,
\* Tag(A/B:s -> C/D:t1) followed by Tag(A/B:s -> C/D:t2) leaves exactly one
\* artefact record in C/D, with the tags {t1, t2} and the identifier of A/B:s.
C6_TagTwiceOneRecord ==
    status = "running" =>
        \A source \in ArtieName, target1 \in ArtieName, target2 \in ArtieName :
            (/\ ~IsInTheSameRepositoryAs(target1, source)
             /\ IsInTheSameRepositoryAs(target2, target1)
             /\ target1.Tag # target2.Tag
             /\ NamedLike(Repositories, source) # {}
             /\ Holders(Repositories, MinOf(NamedLike(Repositories, source)),
                        source.Tag) # {}
             /\ NamedLike(Repositories, target1) = {})
            => LET i     == MinOf(NamedLike(Repositories, source))
                   k     == MinOf(Holders(Repositories, i, source.Tag))
                   w1    == TagOp(World, source, target1)
                   w2    == TagOp(w1, source, target2)
                   named == NamedLike(w2.R, target1)
               IN  (w1.st = "running" /\ w2.st = "running") =>
                       /\ Cardinality(named) = 1
                       /\ \A j \in named :
                             /\ Len(w2.R[j].Artefacts) = 1
                             /\ TagSet(w2.R[j].Artefacts[1].Tags)
                                    = {target1.Tag, target2.Tag}
                             /\ Len(w2.R[j].Artefacts[1].Tags) = 2
                             /\ w2.R[j].Artefacts[1].Id = Repositories[i].Artefacts[k].Id

\* C7: a cross-repository Tag(source -> T:t) when an artefact of T holds t
\* changes neither the index, nor the persisted document, nor the files.
C7_TagExistingIsNoOp ==
    status = "running" =>
        \A source \in ArtieName, target \in ArtieName :
            (/\ ~IsInTheSameRepositoryAs(target, source)
             /\ \E i \in NamedLike(Repositories, target) :
                   Holders(Repositories, i, target.Tag) # {})
            => LET w == TagOp(World, source, target)
               IN  /\ w.R = Repositories
                   /\ w.S = saved
                   /\ w.F = files

\* references used as Id hints: fragments of the content identifiers
HintFragments == NameFragments \cup { <<"b">>, <<"c">>, <<"a", "b">>, <<"e">> }

HintNames == [Domain : {"d"}, Group : {"g"}, Name : HintFragments, Tag : TagNames]

\* the pointers to every artefact record whose Id contains the fragment
AllIdMatches(repos, fragment) ==
    {p \in Pointers(repos) : Contains(repos[p[1]].Artefacts[p[2]].Id, fragment)}

\* C8: when no repository has the fully-qualified name of the reference,
\* GetArtefact answers by the number of artefact records whose Id contains the
\* name fragment: none is not found, one is that record, more is the ambiguity
\* error.
C8_SubstringFallback ==
    \A name \in HintNames :
        NamedLike(Repositories, name) = {} =>
            LET matches == AllIdMatches(Repositories, name.Name)
                g       == GetArtefact(Repositories, name)
            IN  /\ matches = {} => g.kind = "nil"
                /\ Cardinality(matches) = 1 =>
                       (g.kind = "found" /\ <<g.r, g.a>> \in matches)
                /\ Cardinality(matches) > 1 => g.kind = "fatal"

\* two distinct identifiers contain the fragment of a reference that names no
\* repository, after an operation that ended on the ambiguity error
C8_Witness ==
    /\ status = "exited"
    /\ last.out = <<"ambiguous">>
    /\ \E name \in ArtieName :
          /\ NamedLike(Repositories, name) = {}
          /\ \E p, q \in AllIdMatches(Repositories, name.Name) :
                Repositories[p[1]].Artefacts[p[2]].Id
                    # Repositories[q[1]].Artefacts[q[2]].Id
          /\ GetArtefact(Repositories, name).kind = "fatal"

\* C9: when a repository has the fully-qualified name of the reference,
\* GetArtefact returns the artefact of that repository holding the tag, and
\* not found when none holds it, wherever the repository is in the sequence and
\* whatever the identifiers in the other repositories.
C9_NamedRepositoryLookup ==
    \A name \in ArtieName :
        NamedLike(Repositories, name) # {} =>
            LET i == MinOf(NamedLike(Repositories, name))
                g == GetArtefact(Repositories, name)
            IN  IF Holders(Repositories, i, name.Tag) # {}
                THEN /\ g.kind = "found"
                     /\ g.r = i
                     /\ g.a \in Holders(Repositories, i, name.Tag)
                ELSE g.kind = "nil"

\* a world without the reported outcomes
Effect(w) == [R |-> w.R, S |-> w.S, F |-> w.F, st |-> w.st]

\* C10: in Remove, a reference that resolves to no artefact changes nothing
\* and the references after it are processed as if Remove had been called
\* with them alone.
C10_NotFoundContinues ==
    status = "running" =>
        \A name \in ArtieName :
            GetArtefact(Repositories, name).kind = "nil" =>
                /\ Effect(RemoveOp(World, <<name>>)) = Effect(World)
                /\ \A rest \in ArtieName :
                      LET both  == RemoveOp(World, <<name, rest>>)
                          alone == RemoveOp(World, <<rest>>)
                      IN  /\ Effect(both) = Effect(alone)
                          /\ both.out = <<"not-found">> \o alone.out

\* a Remove of two references has reported the first as not found and has
\* removed the artefact of the second
C10_Witness ==
    /\ last.op = "Remove"
    /\ Len(last.out) = 2
    /\ last.out[1] = "not-found"
    /\ last.out[2] \in {"removed-tag", "removed-repository", "removed-files", "removed-by-id"}
    /\ status = "running"

\* the record of artefact d is still in a repository named repoName of the
\* world w, and its backing files are still there if they were
Kept(w, repoName, d) ==
    /\ \E i \in 1 .. Len(w.R) :
          /\ w.R[i].Repository = repoName
          /\ \E k \in 1 .. Len(w.R[i].Artefacts) :
                /\ w.R[i].Artefacts[k].Id = d.Id
                /\ w.R[i].Artefacts[k].FileRef = d.FileRef
    /\ d.FileRef \in files => d.FileRef \in w.F

\* does the reference resolve to the artefact at pointer p
ResolvesTo(repos, name, p) ==
    LET g == GetArtefact(repos, name)
    IN  g.kind = "found" /\ <<g.r, g.a>> = p

\* C11: an artefact without tags keeps its record and its backing files
\* across every Add, Tag and Remove that does not resolve to it.
C11_DanglingStays ==
    status = "running" =>
        \A p \in Pointers(Repositories) :
            LET d        == Repositories[p[1]].Artefacts[p[2]]
                repoName == Repositories[p[1]].Repository
            IN  d.Tags = <<>> =>
                    /\ \A name \in ArtieName :
                          ~ResolvesTo(Repositories, name, p) =>
                              /\ Kept(RemoveOp(World, <<name>>), repoName, d)
                              /\ \A b \in Builds \ built :
                                    Kept(AddOp(World, ".zip", b, name), repoName, d)
                    /\ \A source \in ArtieName, target \in ArtieName :
                          (/\ ~ResolvesTo(Repositories, source, p)
                           /\ ~ResolvesTo(Repositories, target, p))
                              => Kept(TagOp(World, source, target), repoName, d)

\* C12: when Remove(R:t) strips the only tag of an artefact of R, the record
\* of R is deleted exactly when no other artefact of R carries a tag; an
\* artefact of R that still carries a tag is still returned for its tags.
C12_RepositoryDeletedWithLastTag ==
    status = "running" =>
        \A name \in ArtieName :
            LET g == GetArtefact(Repositories, name)
            IN  (/\ g.kind = "found"
                 /\ Repositories[g.r].Repository = FullyQualifiedName(name)
                 /\ Deref(Repositories, g).Tags = <<name.Tag>>)
                => LET w      == RemoveOp(World, <<name>>)
                       arts   == Repositories[g.r].Artefacts
                       others == {k \in 1 .. Len(arts) : k # g.a /\ arts[k].Tags # <<>>}
                   IN  w.st = "running" =>
                           /\ NamedLike(w.R, name) = {} <=> others = {}
                           /\ \A k \in others : \A u \in TagSet(arts[k].Tags) :
                                 LET h == GetArtefact(w.R, [name EXCEPT !.Tag = u])
                                 IN  /\ h.kind = "found"
                                     /\ Deref(w.R, h).Id = arts[k].Id

\* C13: after every Add, Tag and Remove that returns, the persisted document
\* equals the index in memory.
C13_DocumentEqualsIndex ==
    (status = "running" /\ last.op \in {"Add", "Tag", "Remove"}) => saved = Repositories

\* C17: in every reachable state no artefact's tag list holds the same tag
\* twice.
C17_NoDuplicateTags ==
    \A p \in Pointers(Repositories) :
        LET tags == Repositories[p[1]].Artefacts[p[2]].Tags
        IN  \A m, n \in 1 .. Len(tags) : tags[m] = tags[n] => m = n

\* C14: Add of a file whose extension is not .zip ends the command before any
\* effect: no file is moved, no tag is stripped, no record is created and the
\* persisted document is not rewritten.
C14_AddRejectsOtherExtensions ==
    status = "running" =>
        \A ext \in {".tar", ""}, b \in Builds \ built, name \in ArtieName :
            LET w == AddOp(World, ext, b, name)
            IN  /\ w.st = "exited"
                /\ w.out = <<"validation">>
                /\ w.F = files
                /\ w.R = Repositories
                /\ w.S = saved

\* an Add with another extension was refused on a registry holding an artefact
\* whose tag the Add would have taken over
C14_Witness ==
    /\ last = [op |-> "Add", out |-> <<"validation">>]
    /\ status = "exited"
    /\ built # Builds
    /\ \E name \in ArtieName : GetArtefact(Repositories, name).kind = "found"

\* the repositories (indexes) that hold a record whose Id contains the fragment
MatchingRepositories(repos, fragment) ==
    {p[1] : p \in AllIdMatches(repos, fragment)}

\* C19: findRepository returns the repository whose fully-qualified name is
\* that of the reference; when there is none and more than one artefact record
\* has an Id containing the name fragment, it returns none of the repositories
\* holding them (the lookup is ambiguous).
C19_FindRepositoryAmbiguity ==
    \A name \in HintNames :
        LET found == findRepository(Repositories, name)
        IN  /\ NamedLike(Repositories, name) # {} =>
                  found \in NamedLike(Repositories, name)
            /\ (/\ NamedLike(Repositories, name) = {}
                /\ Cardinality(AllIdMatches(Repositories, name.Name)) > 1)
                   => found \notin MatchingRepositories(Repositories, name.Name)

\* the artefact records of a repository, as a set
Records(repo) == {repo.Artefacts[k] : k \in 1 .. Len(repo.Artefacts)}

\* C20: when the reference of a Remove resolves to an artefact that does not
\* hold the reference's tag, Remove removes exactly the record of that artefact
\* from its repository, deletes exactly its files, saves, and leaves every
\* other record and every other repository as they were.
C20_RemoveByIdentifier ==
    status = "running" =>
        \A name \in ArtieName :
            LET g == GetArtefact(Repositories, name)
            IN  (g.kind = "found" /\ ~HasTag(Deref(Repositories, g), name.Tag)) =>
                    LET d == Deref(Repositories, g)
                        w == RemoveOp(World, <<name>>)
                    IN  /\ w.st = "running"
                        /\ Len(w.R) = Len(Repositories)
                        /\ \A i \in 1 .. Len(Repositories) :
                              /\ w.R[i].Repository = Repositories[i].Repository
                              /\ i # g.r => w.R[i] = Repositories[i]
                        /\ Records(w.R[g.r]) = Records(Repositories[g.r]) \ {d}
                        /\ Len(w.R[g.r].Artefacts) = Len(Repositories[g.r].Artefacts) - 1
                        /\ w.F = files \ {d.FileRef}
                        /\ w.S = w.R

\* C18: Tag(R:s -> R:t) within one repository appends t to the tag list of the
\* artefact R:s resolves to when the artefact does not hold t, and saves; when
\* it holds t, nothing changes and nothing is saved; no other record changes,
\* and the same Tag applied twice leaves the store it leaves when applied once.
C18_TagSameRepository ==
    status = "running" =>
        \A source \in ArtieName, target \in ArtieName :
            LET g == GetArtefact(Repositories, source)
            IN  (g.kind = "found" /\ FullyQualifiedName(source) = FullyQualifiedName(target)) =>
                    LET d     == Repositories[g.r].Artefacts[g.a]
                        once  == TagOp(World, source, target)
                        twice == TagOp(once, source, target)
                    IN  /\ target.Tag \notin TagSet(d.Tags) =>
                              /\ once.R = [Repositories EXCEPT
                                              ![g.r].Artefacts[g.a].Tags = Append(@, target.Tag)]
                              /\ once.S = once.R
                        /\ target.Tag \in TagSet(d.Tags) =>
                              /\ once.R = Repositories
                              /\ once.S = saved
                        /\ once.F = files
                        /\ once.st = "running"
                        /\ Effect(twice) = Effect(once)

\* a Tag within one repository has just added a second tag to an artefact of a
\* registry that holds other records
C18_Witness ==
    /\ last = [op |-> "Tag", out |-> <<"tagged">>]
    /\ status = "running"
    /\ Cardinality(Pointers(Repositories)) > 1
    /\ \E p \in Pointers(Repositories) :
          Cardinality(TagSet(Repositories[p[1]].Artefacts[p[2]].Tags)) > 1

\* the elapsed time of the label computed
AgeOf == now - ParseRFC850(createdText)

Units == {"year", "month", "week", "day", "hour", "minute", "second"}

\* the label is a number, a unit and "ago", the unit in the plural exactly when
\* the number is greater than one
PluralWhenMoreThanOne ==
    \E v \in -10 .. 60, u \in Units :
        ageLabel = ToString(v) \o " " \o u \o (IF v > 1 THEN "s" ELSE "") \o " ago"

\* C15, as stated: the age label is "1 year ago" for 400 days, "10 days ago"
\* for 10 days and "1 day ago" for exactly 1 day, and the unit is in the plural
\* exactly when the printed number exceeds one.
C15_AgeLabelsAsStated ==
    ageLabel # "" =>
        /\ AgeOf = Days(400) => ageLabel = "1 year ago"
        /\ AgeOf = Days(10) => ageLabel = "10 days ago"
        /\ AgeOf = Days(1) => ageLabel = "1 day ago"
        /\ PluralWhenMoreThanOne

\* C15, amended: the age label is "1 year ago" for 400 days, "1 week ago" for
\* 10 days (weeks come before days) and "1 day ago" for exactly 1 day, and
\* the unit is in the plural exactly when the printed number exceeds one.
C15_AgeLabels ==
    ageLabel # "" =>
        /\ AgeOf = Days(400) => ageLabel = "1 year ago"
        /\ AgeOf = Days(10) => ageLabel = "1 week ago"
        /\ AgeOf = Days(1) => ageLabel = "1 day ago"
        /\ PluralWhenMoreThanOne

\* the label of an artefact created ten days ago has been computed
C15_Witness ==
    /\ AgeOf = Days(10)
    /\ ageLabel = "1 week ago"

\* the rows a listing owes: one for every tag of every artefact record (by
\* its position in the tag list), and one, numbered 0, for every record
\* without tags
RowKeys(repos) ==
    UNION {{<<p[1], p[2], t>> :
                t \in (IF repos[p[1]].Artefacts[p[2]].Tags = <<>> THEN {0}
                       ELSE 1 .. Len(repos[p[1]].Artefacts[p[2]].Tags))} :
           p \in Pointers(repos)}

\* repository order, then artefact order, then tag order
Precedes(p, q) ==
    \/ p[1] < q[1]
    \/ p[1] = q[1] /\ p[2] < q[2]
    \/ p[1] = q[1] /\ p[2] = q[2] /\ Len(p) = 3 /\ p[3] < q[3]

\* the place of q among the keys K, in that order
Place(K, q) == Cardinality({p \in K : Precedes(p, q)}) + 1

\* rows is the header followed by exactly the rows owed, in order
IsListing(rows, repos, instant) ==
    /\ Len(rows) = 1 + Cardinality(RowKeys(repos))
    /\ rows[1] = <<"REPOSITORY", "TAG", "ARTEFACT ID", "ARTEFACT TYPE", "CREATED", "SIZE">>
    /\ \A q \in RowKeys(repos) :
          LET a == repos[q[1]].Artefacts[q[2]]
          IN  rows[1 + Place(RowKeys(repos), q)] =
                  << repos[q[1]].Repository,
                     IF q[3] = 0 THEN "<none>" ELSE a.Tags[q[3]],
                     SubSeq(a.Id, 8, 19), a.Type, toElapsedLabel(a.Created, instant), a.Size >>

\* rows is exactly one row for every artefact record, in order
IsQuietListing(rows, repos) ==
    /\ Len(rows) = Cardinality(Pointers(repos))
    /\ \A q \in Pointers(repos) :
          rows[Place(Pointers(repos), q)] = << SubSeq(repos[q[1]].Artefacts[q[2]].Id, 8, 19) >>

\* C16: List prints, after the header, exactly one row for every (artefact,
\* tag) pair and exactly one "<none>" row for every artefact without tags, in
\* repository, artefact and tag order; ListQ prints exactly one row for every
\* artefact record; neither changes the store.
C16_Listings ==
    [][/\ last'.op = "List" =>
              /\ \E instant \in Clock : IsListing(last'.out, Repositories, instant)
              /\ <<Repositories, saved, files, status>>' = <<Repositories, saved, files, status>>
       /\ last'.op = "ListQ" =>
              /\ IsQuietListing(last'.out, Repositories)
              /\ <<Repositories, saved, files, status>>' = <<Repositories, saved, files, status>>
      ]_vars

\* a listing of a registry with two repositories, an artefact without tags and
\* an artefact with two tags has been printed
C16_Witness ==
    /\ last.op = "List"
    /\ Len(Repositories) > 1
    /\ \E p \in Pointers(Repositories) : Repositories[p[1]].Artefacts[p[2]].Tags = <<>>
    /\ \E p \in Pointers(Repositories) : Len(Repositories[p[1]].Artefacts[p[2]].Tags) > 1
    /\ \E m \in 1 .. Len(last.out) : last.out[m][2] = "<none>"

\* C23: no two repository records have the same fully-qualified name, and Add
\* and Tag create a repository record only when no record has the
\* fully-qualified name of their target.
C23_RepositoryNamesUnique ==
    /\ \A i, j \in 1 .. Len(Repositories) :
          Repositories[i].Repository = Repositories[j].Repository => i = j
    /\ status = "running" =>
          /\ \A b \in Builds \ built, name \in ArtieName :
                Len(AddOp(World, ".zip", b, name).R) > Len(Repositories)
                    => NamedLike(Repositories, name) = {}
          /\ \A source \in ArtieName, target \in ArtieName :
                Len(TagOp(World, source, target).R) > Len(Repositories)
                    => NamedLike(Repositories, target) = {}

\* a Tag has just created a second repository, beside one that holds two
\* artefacts added under its name
C23_Witness ==
    /\ last = [op |-> "Tag", out |-> <<"tagged-new-repository">>]
    /\ Len(Repositories) = 2
    /\ Len(Repositories[1].Artefacts) = 2

\* every artefact record of the index has its backing files
HaveFiles(repos, dir) ==
    \A p \in Pointers(repos) : repos[p[1]].Artefacts[p[2]].FileRef \in dir

\* C24: a completed Add, Tag or Remove on an index whose records all have
\* their backing files leaves an index whose records all have their backing
\* files, and deletes no file that a record of the index still names.
C24_RecordsHaveFiles ==
    [][(/\ status = "running"
        /\ status' = "running"
        /\ last'.op \in {"Add", "Tag", "Remove"}
        /\ HaveFiles(Repositories, files))
           => /\ HaveFiles(Repositories', files')
              /\ \A f \in files \ files' : \A p \in Pointers(Repositories') :
                    Repositories'[p[1]].Artefacts[p[2]].FileRef # f
      ]_vars

\* the calls of the transport among the outcomes of an operation
Uploads(out) ==
    SelectSeq(out, LAMBDA m : \E b \in 1 .. MaxBuilds + 1 : m = "UploadArtefact " \o ToString(<<"file", b>>))

\* C21: a Tag whose source resolves to no artefact and a Push whose reference
\* resolves to no artefact end the process with the index, the document and
\* the files unchanged, the Push without a call of the transport; a Push that
\* resolves calls the transport exactly once, with the base name of the files
\* of the artefact resolved, and never changes the store.
C21_NotFoundIsFatal ==
    status = "running" =>
        /\ \A name \in ArtieName, err \in BOOLEAN :
              LET g == GetArtefact(Repositories, name)
                  w == PushOp(World, name, err)
              IN  /\ w.R = Repositories /\ w.S = saved /\ w.F = files
                  /\ g.kind = "nil" => (w.st = "exited" /\ Uploads(w.out) = <<>>)
                  /\ g.kind = "found" =>
                        /\ Uploads(w.out) =
                              << "UploadArtefact "
                                    \o ToString(Repositories[g.r].Artefacts[g.a].FileRef) >>
                        /\ w.st = (IF err THEN "exited" ELSE "running")
        /\ \A source \in ArtieName, target \in ArtieName :
              GetArtefact(Repositories, source).kind = "nil" =>
                  LET t == TagOp(World, source, target)
                  IN  t.st = "exited" /\ t.R = Repositories /\ t.S = saved /\ t.F = files

\* a Push of a reference that resolves to nothing has ended the process of a
\* registry that holds artefacts
C21_Witness ==
    /\ last = [op |-> "Push", out |-> <<"no-artefact">>]
    /\ status = "exited"
    /\ Repositories # <<>>

\* the index an operation leaves when applied to the document as loaded, with
\* every backing file there
FromLoaded(p) ==
    Apply(procs[p].did,
          [R |-> procs[p].loaded, S |-> procs[p].loaded,
           F |-> {BaseNameNoExt(b) : b \in Builds}, st |-> "running", out |-> <<>>]).R

\* C22: with two invocations on one registry directory and no lock, an
\* invocation that completes leaves the index its operation makes of the
\* document it loaded, whatever was written since, and once both have
\* completed the document is the index of one of them or a document one of
\* them loaded: the mutation of the other can be missing.
C22_NoLock ==
    /\ \A p \in DOMAIN procs :
          procs[p].pc = "done" => procs[p].Repositories = FromLoaded(p)
    /\ (procs # <<>> /\ \A p \in DOMAIN procs : procs[p].pc = "done") =>
          \E p \in DOMAIN procs : saved \in {procs[p].Repositories, procs[p].loaded}

\* both invocations have completed an Add and the document holds the artefact
\* of one of them and not the artefact of the other
C22_Witness ==
    /\ procs # <<>>
    /\ \A p \in DOMAIN procs : procs[p].pc = "done" /\ procs[p].did.op = "Add"
    /\ \E p \in DOMAIN procs, q \in DOMAIN procs :
          /\ HoldsId(procs[p].Repositories, ArtefactId(procs[p].did.b))
          /\ ~HoldsId(saved, ArtefactId(procs[p].did.b))
          /\ HoldsId(saved, ArtefactId(procs[q].did.b))
====
